---------------------------- MODULE Spec2Model ----------------------------
(***************************************************************************)
(* A model of compare_folders.py: the missing-lines comparison of every    *)
(* source file of one folder against every file of a target folder.        *)
(*                                                                         *)
(* Text is modelled as sequences of characters (one-character strings),    *)
(* file names as sequences of name tokens, a file as the sequence of raw   *)
(* lines its iterator yields, and a written file as the sequence of the    *)
(* lines written to it.  The "Run timestamp" header lines are left out.    *)
(*                                                                         *)
(* The entries of a folder are regular files, a file is readable or not    *)
(* for the whole pass, and writing to the output directory succeeds.       *)
(*                                                                         *)
(* Spec is a pass over several source files with its concurrent tasks,     *)
(* SpecTask a pass of one source file over richer files, and SpecFn the    *)
(* three line functions applied to one source and one target file.         *)
(***************************************************************************)
EXTENDS Integers, Sequences, FiniteSets, TLC

VARIABLES
    source_folder,   \* run_pass's source folder: [exists, files: name -> file]
    target_folder,   \* run_pass's target folder
    pcMain,          \* position of the main thread
    source_files,    \* run_pass: sorted list of source file names
    target_files,    \* run_pass: sorted list of target file names
    futures,         \* run_pass: futures[k] is the source name submitted k-th
    task,            \* per future: position and locals of its task
    yielded,         \* futures already yielded by as_completed
    results,         \* run_pass: the result list
    errlog,          \* lines printed to stderr
    out,             \* the output directory: file name -> lines written
    wrote,           \* per future: the output names its task opened for writing
    fn,              \* the functions applied on their own to one source and target
    main,            \* main: its position, mode, current pass and summary paths
    al,              \* the ordered sequential alignment of two files
    env,             \* env_loader: candidate files, process environment, flag
    conn             \* connector: a _Connection and the raw connection under it

vars == <<source_folder, target_folder, pcMain, source_files, target_files,
          futures, task, yielded, results, errlog, out, wrote, fn, main, al, env, conn>>

(***************************************************************************)
(* Bounds of the model.                                                    *)
(***************************************************************************)
FnMaxLines == 2        \* lines per file when the functions are applied alone
TaskSrcMaxLines == 3   \* lines of the source file of a single task
TaskTgtMaxLines == 1   \* lines of each target file of a single task
PassMaxLines == 1      \* lines per file in a pass of several sources

(***************************************************************************)
(* Characters and strings.                                                 *)
(***************************************************************************)
LF == "\n"
CR == "\r"
Whitespace == {" ", "\t", LF, CR}

Last(s) == s[Len(s)]
Front(s) == SubSeq(s, 1, Len(s) - 1)

SeqsUpTo(S, n) == UNION {[1..k -> S] : k \in 0..n}

\* raw.rstrip('\n\r')
RECURSIVE RStripNL(_)
RStripNL(s) ==
    IF s # <<>> /\ Last(s) \in {LF, CR} THEN RStripNL(Front(s)) ELSE s

RECURSIVE RStripWs(_)
RStripWs(s) ==
    IF s # <<>> /\ Last(s) \in Whitespace THEN RStripWs(Front(s)) ELSE s

RECURSIVE LStripWs(_)
LStripWs(s) ==
    IF s # <<>> /\ Head(s) \in Whitespace THEN LStripWs(Tail(s)) ELSE s

\* line.strip()
Strip(s) == LStripWs(RStripWs(s))

Digit == <<"0", "1", "2", "3", "4", "5", "6", "7", "8", "9">>

\* str(n) and the f-string rendering of an int n >= 0
RECURSIVE Str(_)
Str(n) ==
    IF n < 10 THEN <<Digit[n + 1]>> ELSE Str(n \div 10) \o <<Digit[(n % 10) + 1]>>

(***************************************************************************)
(* Files.  A file is [readable, raw]: opening an unreadable file raises;   *)
(* raw is the sequence of lines the text-mode iterator yields, each ending *)
(* with LF except possibly the last one, which is then not empty.          *)
(***************************************************************************)
WellFormed(raw) ==
    /\ \A i \in 1..Len(raw) : raw[i] # <<>>
    /\ \A i \in 1..(Len(raw) - 1) : Last(raw[i]) = LF

Terminated(texts) == {t \o <<LF>> : t \in texts}

Contents(rawlines, n) == {raw \in SeqsUpTo(rawlines, n) : WellFormed(raw)}

Readable(raw) == [readable |-> TRUE, raw |-> raw]
Unreadable == [readable |-> FALSE, raw |-> <<>>]

(***************************************************************************)
(* read_source_non_empty_lines_with_lineno, build_target_line_set,         *)
(* compare_source_to_target_missing.                                       *)
(***************************************************************************)
\* line.strip() == ''  (the line is skipped)
SkipLine(line) == Strip(line) = <<>>

\* enumerate(f, start=1)
EnumerateStart == 1

LineNoZeroBased(k) == k - 1

\* the number enumerate gives the k-th line the iterator yields
LineNo(k) == EnumerateStart + (k - 1)

RECURSIVE ReadLoop(_, _, _)
ReadLoop(raw, k, result) ==
    IF k > Len(raw) THEN result
    ELSE LET i == LineNo(k)
             line == RStripNL(raw[k])
         IN  IF SkipLine(line)
             THEN ReadLoop(raw, k + 1, result)
             ELSE ReadLoop(raw, k + 1, Append(result, <<i, line>>))

read_source_non_empty_lines_with_lineno(file) == ReadLoop(file.raw, 1, <<>>)

build_target_line_set(file) ==
    {RStripNL(file.raw[k]) : k \in {j \in 1..Len(file.raw) : ~SkipLine(RStripNL(file.raw[j]))}}

MissingByStripped(source_lines_with_ln, target_line_set) ==
    SelectSeq(source_lines_with_ln,
              LAMBDA e : Strip(e[2]) \notin {Strip(t) : t \in target_line_set})

MissingDeduplicated(source_lines_with_ln, target_line_set) ==
    SelectSeq(source_lines_with_ln,
              LAMBDA e : /\ e[2] \notin target_line_set
                         /\ \A k \in 1..Len(source_lines_with_ln) :
                               source_lines_with_ln[k][2] = e[2] =>
                                   source_lines_with_ln[k][1] >= e[1])

compare_source_to_target_missing(source_lines_with_ln, target_line_set) ==
    SelectSeq(source_lines_with_ln, LAMBDA e : e[2] \notin target_line_set)

(***************************************************************************)
(* File names.  A name is a sequence of tokens; no token is a prefix of    *)
(* another, so comparing names token by token in TokenOrder is Python's    *)
(* comparison of the strings they spell.                                   *)
(***************************************************************************)
TokenOrder ==
    <<".TXT", ".counts", ".csv", ".missing", ".summary", ".totalcount", ".txt",
      ".vs_all_from_", "A", "A_to_B", "B", "B_to_A", "a",
      "all_passes_missing_counts.master_summary", "all_sources_missing_counts.",
      "b", "target">>

Rank(t) == CHOOSE i \in 1..Len(TokenOrder) : TokenOrder[i] = t

RECURSIVE NameLess(_, _)
NameLess(a, b) ==
    IF a = <<>> THEN b # <<>>
    ELSE IF b = <<>> THEN FALSE
    ELSE IF Head(a) = Head(b) THEN NameLess(Tail(a), Tail(b))
    ELSE Rank(Head(a)) < Rank(Head(b))

\* sorted(names): insertion of a name after the names that are not greater
RECURSIVE InsertName(_, _)
InsertName(x, s) ==
    IF s = <<>> THEN <<x>>
    ELSE IF NameLess(x, Head(s)) THEN <<x>> \o s
    ELSE <<Head(s)>> \o InsertName(x, Tail(s))

RECURSIVE SortedNames(_)
SortedNames(S) ==
    IF S = {} THEN <<>>
    ELSE LET x == CHOOSE n \in S : TRUE
         IN  InsertName(x, SortedNames(S \ {x}))

\* sorted(all_results, key=lambda r: r['source']), a stable sort
RECURSIVE InsertBySource(_, _)
InsertBySource(r, s) ==
    IF s = <<>> THEN <<r>>
    ELSE IF NameLess(r.source, Head(s).source) THEN <<r>> \o s
    ELSE <<Head(s)>> \o InsertBySource(r, Tail(s))

RECURSIVE SortedBySource(_)
SortedBySource(s) ==
    IF s = <<>> THEN <<>>
    ELSE InsertBySource(Last(s), SortedBySource(Front(s)))

Lower(tok) == IF tok = ".TXT" THEN ".txt" ELSE tok

\* p.suffix.lower() == '.txt'
IsTxt(name) == name # <<>> /\ Lower(Last(name)) = ".txt"

(***************************************************************************)
(* Written lines.  A line is [kind, name, num, text]: kind is the fixed    *)
(* text of the line, name a file or folder name in it, num a number as     *)
(* the decimal digits written, text a line content.                        *)
(***************************************************************************)
Line(kind, name, num, text) == [kind |-> kind, name |-> name, num |-> num, text |-> text]

Fixed(kind) == Line(kind, <<>>, <<>>, <<>>)
Blank == Fixed("")

EmptyDict == [k \in {} |-> 0]

\* d[k] = v of a Python dict
DictSet(d, k, v) == (k :> v) @@ d

\* folder.name or default
FolderName(folder, default) == IF folder.name = <<>> THEN <<default>> ELSE folder.name

OutFilenameNoSource(source_name, target_folder_name) ==
    <<".vs_all_from_">> \o target_folder_name \o <<".missing", ".txt">>

\* f"{source_path.name}.vs_all_from_{target_folder_name}.missing.txt"
out_filename(source_name, target_folder_name) ==
    source_name \o <<".vs_all_from_">> \o target_folder_name \o <<".missing", ".txt">>

\* f"{source_path.name}.vs_all_from_{target_folder_name}.missing.totalcount.txt"
totalcount_filename(source_name, target_folder_name) ==
    source_name \o <<".vs_all_from_">> \o target_folder_name
        \o <<".missing", ".totalcount", ".txt">>

\* f"{source_path.name}.vs_all_from_{target_folder_name}.missing.counts.txt"
counts_detail_filename(source_name, target_folder_name) ==
    source_name \o <<".vs_all_from_">> \o target_folder_name
        \o <<".missing", ".counts", ".txt">>

(***************************************************************************)
(* compare_source_to_targets_and_write: the body of the missing-lines      *)
(* report.  acc = [lines, counts, total, any, built] holds what was written *)
(* so far, per_target_counts, total_missing, overall_any_missing and the   *)
(* targets whose line set was built.                                       *)
(***************************************************************************)
UnionTargetSet(tgt) ==
    UNION {build_target_line_set(target_folder.files[t]) :
             t \in {u \in DOMAIN target_folder.files : target_folder.files[u].readable}}

\* tgt_set = build_target_line_set(tgt), for a target that can be read
TargetSet(tgt) == build_target_line_set(target_folder.files[tgt])

ErrorStepNoCount(acc, tgt) ==
    [acc EXCEPT !.lines = @ \o <<Line("# ERROR reading target file", tgt, <<>>, <<>>), Blank>>]

\* the except branch: the error line, a count of 0, continue
ErrorStep(acc, tgt) ==
    [acc EXCEPT !.lines = @ \o <<Line("# ERROR reading target file", tgt, <<>>, <<>>), Blank>>,
                !.counts = DictSet(@, tgt, 0)]

SetTotal(total_missing, n) == n

\* total_missing += len(missing)
AddToTotal(total_missing, n) == total_missing + n

\* for orig_ln, line in missing: out.write(f"src_ln={orig_ln}: {line}\n")
EntryLines(missing) ==
    [k \in 1..Len(missing) |-> Line("src_ln=", <<>>, Str(missing[k][1]), missing[k][2])]

MissingStep(acc, tgt, source_lines) ==
    LET missing == compare_source_to_target_missing(source_lines, TargetSet(tgt))
        counted == [acc EXCEPT !.counts = DictSet(@, tgt, Len(missing)),
                               !.total = AddToTotal(@, Len(missing)),
                               !.built = Append(@, tgt)]
    IN  IF missing = <<>>
        THEN [counted EXCEPT !.lines = @ \o <<Fixed("(no missing lines)"), Blank>>]
        ELSE [counted EXCEPT !.lines = @ \o EntryLines(missing) \o <<Blank>>,
                             !.any = TRUE]

\* one iteration of "for tgt in target_paths"
TargetStep(acc, tgt, source_lines) ==
    LET headed == [acc EXCEPT !.lines = @ \o <<Fixed("===="),
                                               Line("Target file:", tgt, <<>>, <<>>),
                                               Fixed("----")>>]
    IN  IF ~target_folder.files[tgt].readable
        THEN ErrorStep(headed, tgt)
        ELSE MissingStep(headed, tgt, source_lines)

RECURSIVE TargetLoop(_, _, _)
TargetLoop(acc, k, source_lines) ==
    IF k > Len(target_files) THEN acc
    ELSE TargetLoop(TargetStep(acc, target_files[k], source_lines), k + 1, source_lines)

ReportHeader(source_name) ==
    <<Fixed("# Missing-lines report"),
      Line("# Source file:", source_name, <<>>, <<>>),
      Line("# Target folder:", FolderName(target_folder, "target"),
           Str(Len(target_files)), <<>>),
      Blank>>

EmptySourceNoCounts(target_paths) == EmptyDict

\* per_target_counts = {t.name: 0 for t in target_paths}
EmptySourceCounts(target_paths) ==
    [t \in {target_paths[k] : k \in 1..Len(target_paths)} |-> 0]

ReportStart(source_name) ==
    [lines |-> ReportHeader(source_name), counts |-> EmptyDict, total |-> 0,
     any |-> FALSE, built |-> <<>>]

ReportAlwaysLoops(source_name, source_lines) ==
    TargetLoop(ReportStart(source_name), 1, source_lines)

\* lines 103-140: what the task writes to out_path and leaves in
\* per_target_counts and total_missing
Report(source_name, source_lines) ==
    LET start == ReportStart(source_name)
    IN  IF source_lines = <<>>
        THEN [start EXCEPT
                !.lines = @ \o <<Fixed("# NOTE: Source file has no non-empty lines")>>,
                !.counts = EmptySourceCounts(target_files)]
        ELSE LET looped == TargetLoop(start, 1, source_lines)
             IN  IF looped.any THEN looped
                 ELSE [looped EXCEPT
                         !.lines = @ \o <<Fixed("# Overall: No missing lines found")>>]

\* lines 145-146: the count-only file
TotalCountLines(total_missing) == <<Line("", <<>>, Str(total_missing), <<>>)>>

\* lines 151-158: the per-target counts file
CountsDetailLines(source_name, per_target_counts, total_missing) ==
    LET names == SortedNames(DOMAIN per_target_counts)
    IN  <<Line("# Counts for source:", source_name, <<>>, <<>>),
          Line("# Target folder:", FolderName(target_folder, "target"), <<>>, <<>>),
          Blank>>
        \o [k \in 1..Len(names) |->
              Line(":", names[k], Str(per_target_counts[names[k]]), <<>>)]
        \o <<Blank, Line("TOTAL:", <<>>, Str(total_missing), <<>>)>>

\* the dict the task returns
TaskResult(t) ==
    [source |-> t.source, target_counts |-> t.per_target_counts,
     total_missing |-> t.total_missing]

(***************************************************************************)
(* write_overall_summary.                                                  *)
(***************************************************************************)
\* res['total_missing'] or 0, then int()
IntOr0(x) == IF x = 0 THEN 0 ELSE x

SetGrand(grand_total, total_missing) == IntOr0(total_missing)

\* grand_total += int(res['total_missing'] or 0)
AddToGrand(grand_total, total_missing) == grand_total + IntOr0(total_missing)

RECURSIVE SummaryLoop(_, _, _)
SummaryLoop(sorted, k, acc) ==
    IF k > Len(sorted) THEN acc
    ELSE SummaryLoop(sorted, k + 1,
            [lines |-> Append(acc.lines,
                              Line(",", sorted[k].source, Str(sorted[k].total_missing), <<>>)),
             grand_total |-> AddToGrand(acc.grand_total, sorted[k].total_missing)])

Unsorted(all_results) == all_results

\* sorted(all_results, key=lambda r: r['source'])
SummaryOrder(all_results) == SortedBySource(all_results)

\* f"all_sources_missing_counts.{pass_label}.summary.txt"
summary_filename(pass_label) ==
    <<"all_sources_missing_counts.", pass_label, ".summary", ".txt">>

\* the lines write_overall_summary writes to summary_path
SummaryLines(all_results, pass_label) ==
    LET head == <<Line("# Missing counts summary - pass:", <<pass_label>>, <<>>, <<>>), Blank>>
    IN  IF all_results = <<>>
        THEN head \o <<Fixed("# No results (no source or target files?)")>>
        ELSE LET looped == SummaryLoop(SummaryOrder(all_results), 1,
                              [lines |-> head \o <<Fixed("SOURCE_FILE,TOTAL_MISSING")>>,
                               grand_total |-> 0])
             IN  looped.lines
                 \o <<Blank, Line("GRAND_TOTAL,", <<>>, Str(looped.grand_total), <<>>)>>

\* a bare "return" gives None
None == <<>>

\* what write_overall_summary returns: nothing after "# No results", else
\* summary_path
write_overall_summary(all_results, pass_label) ==
    IF all_results = <<>> THEN None ELSE summary_filename(pass_label)

(***************************************************************************)
(* gather_text_files, run_pass and the pass of main.                       *)
(***************************************************************************)
\* NUM_WORKER_THREADS = 4
NUM_WORKER_THREADS == 4

\* mode_val = (MODE or "BOTH").strip().upper()
Upper(c) ==
    CASE c = "a" -> "A" [] c = "b" -> "B" [] c = "o" -> "O" [] c = "t" -> "T"
      [] c = "h" -> "H" [] OTHER -> c

ModeVal(MODE) ==
    LET given == IF MODE = <<>> THEN <<"B", "O", "T", "H">> ELSE MODE
        stripped == Strip(given)
    IN  [k \in 1..Len(stripped) |-> Upper(stripped[k])]

A_TO_B == <<"A", "_", "T", "O", "_", "B">>

B_TO_A == <<"B", "_", "T", "O", "_", "A">>

BOTH == <<"B", "O", "T", "H">>

\* main's locals: where it is, MODE and mode_val, the label of the pass being
\* run, all_summary_paths, the passes begun, the final listing, and the names
\* in output_dir that cannot be opened for writing
MainOff ==
    [pc |-> "off", MODE |-> <<>>, mode_val |-> <<>>, pass |-> "none",
     all_summary_paths |-> <<>>, ran |-> <<>>, listing |-> <<>>, unwritable |-> {}]

MainInPass(pass_label) ==
    [MainOff EXCEPT !.pc = "pass", !.MODE = A_TO_B, !.mode_val = A_TO_B,
                    !.pass = pass_label, !.ran = <<pass_label>>]

\* the pass_label main hands to write_overall_summary in the pass it is in
PassLabel == main.pass

\* print("Error during A->B pass:", e) / print("Error during B->A pass:", e)
PassErrorMsg == IF PassLabel = "A_to_B" THEN "Error during A->B pass:"
                ELSE "Error during B->A pass:"

PassErrorEscapes(m) == [m EXCEPT !.pc = "crashed"]

\* except Exception as e: the pass is given up and main goes on after it
PassExcept(m) == m


\* sorted([p for p in folder.iterdir() if p.is_file() and p.suffix.lower() == '.txt'])
gather_text_files(folder) == SortedNames({n \in DOMAIN folder.files : IsTxt(n)})

Futures == 1..Len(futures)

Finished(i) == task[i].pc \in {"done", "raised"}

Running(i) == task[i].pc \in {"read", "report", "count", "detail"}

\* the as_completed loop has yielded every future
AllYielded == yielded = Futures

ResultHasMissing(res) == res.total_missing # 0

\* "if res:" of a dict with three keys
ResultTruthy(res) == DOMAIN res # {}

Log(msg, name) == [msg |-> msg, name |-> name]

\* run_pass up to the pool, and main's except around it
Gather ==
    /\ pcMain = "run_pass"
    /\ IF ~source_folder.exists \/ ~target_folder.exists
       THEN \* gather_text_files raises ValueError; main prints and goes on
            /\ errlog' = Append(errlog, Log(PassErrorMsg,
                                   IF ~source_folder.exists THEN source_folder.name
                                   ELSE target_folder.name))
            /\ pcMain' = "done"
            /\ main' = PassExcept(main)
            /\ UNCHANGED <<source_files, target_files>>
       ELSE LET src == gather_text_files(source_folder)
                tgt == gather_text_files(target_folder)
            IN  /\ source_files' = src
                /\ target_files' = tgt
                /\ UNCHANGED main
                /\ IF src = <<>>
                   THEN /\ errlog' = Append(errlog, Log("No .txt files found in source folder:",
                                                        source_folder.name))
                        /\ pcMain' = "summary"
                   ELSE IF tgt = <<>>
                   THEN /\ errlog' = Append(errlog, Log("No .txt files found in target folder:",
                                                        target_folder.name))
                        /\ pcMain' = "summary"
                   ELSE /\ pcMain' = "pool"
                        /\ UNCHANGED errlog
    /\ UNCHANGED <<source_folder, target_folder, futures, task, yielded, results, out,
                   wrote, fn, al, env, conn>>

\* futures.append(ex.submit(compare_source_to_targets_and_write, src, ...))
Submit ==
    /\ pcMain = "pool"
    /\ Len(futures) < Len(source_files)
    /\ LET src == source_files[Len(futures) + 1]
       IN  /\ futures' = Append(futures, src)
           /\ task' = Append(task, [pc |-> "pending", source |-> src, source_lines |-> <<>>,
                                    per_target_counts |-> EmptyDict, total_missing |-> 0,
                                    built |-> <<>>])
           /\ wrote' = Append(wrote, {})
    /\ UNCHANGED <<source_folder, target_folder, pcMain, source_files, target_files,
                   yielded, results, errlog, out, fn, main, al, env, conn>>

\* a worker thread of the pool takes the oldest queued task
TaskStart(i) ==
    /\ task[i].pc = "pending"
    /\ \A j \in 1..(i - 1) : task[j].pc # "pending"
    /\ Cardinality({j \in Futures : Running(j)}) < NUM_WORKER_THREADS
    /\ task' = [task EXCEPT ![i].pc = "read"]
    /\ UNCHANGED <<source_folder, target_folder, pcMain, source_files, target_files,
                   futures, yielded, results, errlog, out, wrote, fn, main, al, env, conn>>

\* source_lines = read_source_non_empty_lines_with_lineno(source_path)
TaskRead(i) ==
    /\ task[i].pc = "read"
    /\ LET file == source_folder.files[task[i].source]
       IN  IF ~file.readable
           THEN task' = [task EXCEPT ![i].pc = "raised"]
           ELSE task' = [task EXCEPT ![i].pc = "report",
                           ![i].source_lines = read_source_non_empty_lines_with_lineno(file)]
    /\ UNCHANGED <<source_folder, target_folder, pcMain, source_files, target_files,
                   futures, yielded, results, errlog, out, wrote, fn, main, al, env, conn>>

ConsumedTargets(target_paths) == <<>>

\* "for tgt in target_paths" reads the list the tasks share and leaves it as
\* it is
IteratedTargets(target_paths) == target_paths

\* with out_path.open('w') as out: ...
TaskReport(i) ==
    /\ task[i].pc = "report"
    /\ LET t == task[i]
           path == out_filename(t.source, FolderName(target_folder, "target"))
           rep == Report(t.source, t.source_lines)
       IN  /\ out' = DictSet(out, path, rep.lines)
           /\ wrote' = [wrote EXCEPT ![i] = @ \cup {path}]
           /\ task' = [task EXCEPT ![i].pc = "count",
                                   ![i].per_target_counts = rep.counts,
                                   ![i].total_missing = rep.total,
                                   ![i].built = rep.built]
    /\ target_files' = IteratedTargets(target_files)
    /\ UNCHANGED <<source_folder, target_folder, pcMain, source_files,
                   futures, yielded, results, errlog, fn, main, al, env, conn>>

\* with totalcount_path.open('w') as tc: tc.write(str(total_missing) + "\n")
TaskCount(i) ==
    /\ task[i].pc = "count"
    /\ LET t == task[i]
           path == totalcount_filename(t.source, FolderName(target_folder, "target"))
       IN  /\ out' = DictSet(out, path, TotalCountLines(t.total_missing))
           /\ wrote' = [wrote EXCEPT ![i] = @ \cup {path}]
    /\ task' = [task EXCEPT ![i].pc = "detail"]
    /\ UNCHANGED <<source_folder, target_folder, pcMain, source_files, target_files,
                   futures, yielded, results, errlog, fn, main, al, env, conn>>

\* with counts_detail_path.open('w') as cd: ...; return {...}
TaskDetail(i) ==
    /\ task[i].pc = "detail"
    /\ LET t == task[i]
           path == counts_detail_filename(t.source, FolderName(target_folder, "target"))
       IN  /\ out' = DictSet(out, path,
                             CountsDetailLines(t.source, t.per_target_counts, t.total_missing))
           /\ wrote' = [wrote EXCEPT ![i] = @ \cup {path}]
    /\ task' = [task EXCEPT ![i].pc = "done"]
    /\ UNCHANGED <<source_folder, target_folder, pcMain, source_files, target_files,
                   futures, yielded, results, errlog, fn, main, al, env, conn>>

\* one iteration of "for f in as_completed(futures)"
Collect(i) ==
    /\ pcMain = "pool"
    /\ Len(futures) = Len(source_files)
    /\ i \notin yielded
    /\ Finished(i)
    /\ yielded' = yielded \cup {i}
    /\ IF task[i].pc = "raised"
       THEN /\ errlog' = Append(errlog, Log("Error comparing a source file:", task[i].source))
            /\ UNCHANGED results
       ELSE /\ results' = IF ResultTruthy(TaskResult(task[i]))
                          THEN Append(results, TaskResult(task[i]))
                          ELSE results
            /\ UNCHANGED errlog
    /\ UNCHANGED <<source_folder, target_folder, pcMain, source_files, target_files,
                   futures, task, out, wrote, fn, main, al, env, conn>>

ReturnAfterFirst == yielded # {}

\* the as_completed loop has ended and the with block has shut the pool down
\* (shutdown(wait=True)): run_pass may return
LoopAndPoolDone == AllYielded /\ \A i \in Futures : Finished(i)

\* the loop ends, the pool shuts down, run_pass returns results
Return ==
    /\ pcMain = "pool"
    /\ Len(futures) = Len(source_files)
    /\ LoopAndPoolDone
    /\ pcMain' = "summary"
    /\ UNCHANGED <<source_folder, target_folder, source_files, target_files, futures,
                   task, yielded, results, errlog, out, wrote, fn, main, al, env, conn>>

\* summary_path = write_overall_summary(results_A_to_B, output_dir, pass_label="A_to_B")
\* if summary_path: all_summary_paths.append(summary_path)
WriteSummary ==
    /\ pcMain = "summary"
    /\ pcMain' = "done"
    /\ IF summary_filename(PassLabel) \in main.unwritable
       THEN \* summary_path.open('w') raises OSError; main prints and goes on
            /\ errlog' = Append(errlog, Log(PassErrorMsg, summary_filename(PassLabel)))
            /\ main' = PassExcept(main)
            /\ UNCHANGED out
       ELSE LET summary_path == write_overall_summary(results, PassLabel)
            IN  /\ out' = DictSet(out, summary_filename(PassLabel),
                                  SummaryLines(results, PassLabel))
                /\ main' = [main EXCEPT !.all_summary_paths =
                                IF summary_path # None THEN Append(@, summary_path) ELSE @]
                /\ UNCHANGED errlog
    /\ UNCHANGED <<source_folder, target_folder, source_files, target_files, futures,
                   task, yielded, results, wrote, fn, al, env, conn>>

Next ==
    \/ Gather
    \/ Submit
    \/ \E i \in Futures : TaskStart(i)
    \/ \E i \in Futures : TaskRead(i)
    \/ \E i \in Futures : TaskReport(i)
    \/ \E i \in Futures : TaskCount(i)
    \/ \E i \in Futures : TaskDetail(i)
    \/ \E i \in Futures : Collect(i)
    \/ Return
    \/ WriteSummary

(***************************************************************************)
(* main around its passes.                                                 *)
(***************************************************************************)
ValidMode(mode_val) == mode_val \in {A_TO_B, B_TO_A, BOTH}

\* the passes main runs for a mode, in the order it runs them
Requested(mode_val) ==
    (IF mode_val \in {A_TO_B, BOTH} THEN <<"A_to_B">> ELSE <<>>)
    \o (IF mode_val \in {B_TO_A, BOTH} THEN <<"B_to_A">> ELSE <<>>)

combined_filename == <<"all_passes_missing_counts.master_summary", ".txt">>

RECURSIVE MasterBody(_)
MasterBody(paths) ==
    IF paths = <<>> THEN <<>>
    ELSE <<Line("--- Summary file:", Head(paths), <<>>, <<>>)>>
         \o out[Head(paths)] \o <<Blank, Blank>> \o MasterBody(Tail(paths))

\* what main writes to combined_path
MasterLines(all_summary_paths) ==
    <<Fixed("# Master summary across passes"), Blank>> \o MasterBody(all_summary_paths)

\* run_pass is entered with fresh locals
EnterPass ==
    /\ pcMain' = "run_pass"
    /\ source_files' = <<>>
    /\ target_files' = <<>>
    /\ futures' = <<>>
    /\ task' = <<>>
    /\ yielded' = {}
    /\ results' = <<>>
    /\ wrote' = <<>>

\* lines 233-244: the mode is normalised and checked, output_dir is made and
\* the first requested pass begins with folderA as source_folder, or with
\* folderB if only B_to_A is asked for
MainStart ==
    /\ main.pc = "start"
    /\ LET mode_val == ModeVal(main.MODE)
       IN  IF ~ValidMode(mode_val)
           THEN /\ main' = [main EXCEPT !.pc = "returned", !.mode_val = mode_val]
                /\ errlog' = Append(errlog, Log("MODE must be one of", mode_val))
                /\ UNCHANGED <<source_folder, target_folder, pcMain, source_files,
                               target_files, futures, task, yielded, results, wrote>>
           ELSE /\ main' = [main EXCEPT !.pc = "pass", !.mode_val = mode_val,
                                        !.pass = Head(Requested(mode_val)),
                                        !.ran = <<Head(Requested(mode_val))>>]
                /\ IF Head(Requested(mode_val)) = "A_to_B"
                   THEN UNCHANGED <<source_folder, target_folder>>
                   ELSE /\ source_folder' = target_folder
                        /\ target_folder' = source_folder
                /\ EnterPass
                /\ UNCHANGED errlog
    /\ UNCHANGED <<out, fn, al, env, conn>>

\* lines 252-260: after the A_to_B pass of mode BOTH comes the B_to_A pass,
\* with the folders in each other's place
SecondPass ==
    /\ main.pc = "pass"
    /\ pcMain = "done"
    /\ main.pass = "A_to_B"
    /\ main.mode_val = BOTH
    /\ main' = [main EXCEPT !.pass = "B_to_A", !.ran = Append(@, "B_to_A")]
    /\ source_folder' = target_folder
    /\ target_folder' = source_folder
    /\ EnterPass
    /\ UNCHANGED <<errlog, out, fn, al, env, conn>>

\* lines 262-273: the master summary, if more than one summary path was kept
Master ==
    /\ main.pc = "pass"
    /\ pcMain = "done"
    /\ main.pass = Last(Requested(main.mode_val))
    /\ main' = [main EXCEPT !.pc = "listing"]
    /\ out' = IF Len(main.all_summary_paths) > 1
              THEN DictSet(out, combined_filename, MasterLines(main.all_summary_paths))
              ELSE out
    /\ UNCHANGED <<source_folder, target_folder, pcMain, source_files, target_files,
                   futures, task, yielded, results, errlog, wrote, fn, al, env, conn>>

\* lines 275-281: the names of the files in output_dir, sorted
Listing ==
    /\ main.pc = "listing"
    /\ main' = [main EXCEPT !.pc = "finished", !.listing = SortedNames(DOMAIN out)]
    /\ UNCHANGED <<source_folder, target_folder, pcMain, source_files, target_files,
                   futures, task, yielded, results, errlog, out, wrote, fn, al, env, conn>>

NextMain ==
    \/ MainStart
    \/ main.pc = "pass" /\ Next
    \/ SecondPass
    \/ Master
    \/ Listing

(***************************************************************************)
(* The functions applied on their own to one source and one target file.   *)
(***************************************************************************)
AlOff == [pc |-> "off"]

EnvOff == [pc |-> "off"]

ConnOff == [pc |-> "off"]

FnOff ==
    [pc |-> "off", src |-> Readable(<<>>), tgt |-> Readable(<<>>),
     source_lines |-> <<>>, tgt_set |-> {}, missing |-> <<>>]

FnRead ==
    /\ fn.pc = "read"
    /\ fn' = [fn EXCEPT !.pc = "build",
                        !.source_lines = read_source_non_empty_lines_with_lineno(fn.src)]
    /\ UNCHANGED <<source_folder, target_folder, pcMain, source_files, target_files,
                   futures, task, yielded, results, errlog, out, wrote, main, al, env, conn>>

FnBuild ==
    /\ fn.pc = "build"
    /\ fn' = [fn EXCEPT !.pc = "compare", !.tgt_set = build_target_line_set(fn.tgt)]
    /\ UNCHANGED <<source_folder, target_folder, pcMain, source_files, target_files,
                   futures, task, yielded, results, errlog, out, wrote, main, al, env, conn>>

FnCompare ==
    /\ fn.pc = "compare"
    /\ fn' = [fn EXCEPT !.pc = "done",
                        !.missing = compare_source_to_target_missing(fn.source_lines,
                                                                     fn.tgt_set)]
    /\ UNCHANGED <<source_folder, target_folder, pcMain, source_files, target_files,
                   futures, task, yielded, results, errlog, out, wrote, main, al, env, conn>>

NextFn == FnRead \/ FnBuild \/ FnCompare

(***************************************************************************)
(* Initial states.                                                         *)
(***************************************************************************)
Texts == {<<>>, <<" ">>, <<"a">>, <<"a", " ">>, <<"b">>}

\* the lines of the files the functions are applied to: with and without
\* surrounding blanks, and a last line without its line end
FnRaw == Terminated(Texts) \cup {<<"a">>}

\* the lines of the files of a single task
TaskRaw == Terminated({<<>>, <<"a">>, <<"b">>})

\* the lines of the source files of a pass of several sources
PassRaw == Terminated({<<"a">>, <<"b">>})

\* the files its target folder may hold
PassTargetFiles == {Unreadable, Readable(<<>>), Readable(<<<<"a", LF>>>>)}

FileOptions(rawlines, n) == {Unreadable} \cup {Readable(raw) : raw \in Contents(rawlines, n)}

NoFolder(name) == [exists |-> FALSE, name |-> name, files |-> EmptyDict]

\* the folders holding some of the names, each file one of the options
Folders(name, names, options) ==
    {[exists |-> TRUE, name |-> name, files |-> f] :
        f \in UNION {[S -> options] : S \in SUBSET names}}

PassStart ==
    /\ pcMain = "run_pass"
    /\ source_files = <<>>
    /\ target_files = <<>>
    /\ futures = <<>>
    /\ task = <<>>
    /\ yielded = {}
    /\ results = <<>>
    /\ errlog = <<>>
    /\ out = EmptyDict
    /\ wrote = <<>>
    /\ fn = FnOff
    /\ main = MainInPass("A_to_B")
    /\ al = AlOff
    /\ conn = ConnOff
    /\ env = EnvOff

\* a pass over up to three source files and a target folder
Init ==
    /\ source_folder \in {NoFolder(<<"A">>)}
          \cup Folders(<<"A">>, {<<"a", ".txt">>, <<"a", "b", ".TXT">>, <<"b", ".txt">>},
                       FileOptions(PassRaw, PassMaxLines))
    /\ target_folder \in {NoFolder(<<"B">>)}
          \cup Folders(<<"B">>, {<<"b", ".txt">>, <<"a", ".csv">>},
                       PassTargetFiles)
    /\ PassStart

\* a pass of one source file against up to two target files
InitTask ==
    /\ source_folder \in
          {[exists |-> TRUE, name |-> <<"A">>, files |-> (<<"a", ".txt">> :> f)] :
              f \in FileOptions(TaskRaw, TaskSrcMaxLines)}
    /\ target_folder \in Folders(<<"B">>, {<<"a", ".txt">>, <<"b", ".txt">>},
                                 FileOptions(TaskRaw, TaskTgtMaxLines))
    /\ PassStart

\* the three functions on one readable source and one readable target
InitFn ==
    /\ source_folder = NoFolder(<<"A">>)
    /\ target_folder = NoFolder(<<"B">>)
    /\ pcMain = "off"
    /\ source_files = <<>>
    /\ target_files = <<>>
    /\ futures = <<>>
    /\ task = <<>>
    /\ yielded = {}
    /\ results = <<>>
    /\ errlog = <<>>
    /\ out = EmptyDict
    /\ wrote = <<>>
    /\ \E s \in Contents(FnRaw, FnMaxLines), t \in Contents(FnRaw, FnMaxLines) :
          fn = [FnOff EXCEPT !.pc = "read", !.src = Readable(s), !.tgt = Readable(t)]
    /\ main = MainOff
    /\ al = AlOff
    /\ conn = ConnOff
    /\ env = EnvOff

\* the files of folderA and folderB when main runs its passes
MainFiles == {Unreadable, Readable(<<>>), Readable(<<<<"a", LF>>>>)}

\* the values of MODE
ModeInputs ==
    {<<>>, BOTH, <<" ", "b", "o", "t", "h">>, <<"A", "_", "t", "o", "_", "B">>,
     <<"b", "_", "t", "o", "_", "a">>, <<"A", "t", "o", "B">>}

\* main from its first line, with folderA and folderB in source_folder and
\* target_folder
InitMain ==
    /\ source_folder \in {NoFolder(<<"A">>)}
          \cup Folders(<<"A">>, {<<"a", ".txt">>, <<"b", ".txt">>}, MainFiles)
    /\ target_folder \in {NoFolder(<<"B">>)}
          \cup Folders(<<"B">>, {<<"b", ".txt">>}, MainFiles)
    /\ pcMain = "off"
    /\ source_files = <<>>
    /\ target_files = <<>>
    /\ futures = <<>>
    /\ task = <<>>
    /\ yielded = {}
    /\ results = <<>>
    /\ errlog = <<>>
    /\ out = EmptyDict
    /\ wrote = <<>>
    /\ fn = FnOff
    /\ \E mode \in ModeInputs,
          locked \in SUBSET {summary_filename("A_to_B"), summary_filename("B_to_A")} :
          main = [MainOff EXCEPT !.pc = "start", !.MODE = mode, !.unwritable = locked]
    /\ al = AlOff
    /\ conn = ConnOff
    /\ env = EnvOff

Spec == Init /\ [][Next]_vars

SpecMain == InitMain /\ [][NextMain]_vars

SpecTask == InitTask /\ [][Next]_vars

SpecFn == InitFn /\ [][NextFn]_vars

(***************************************************************************)
(* Ordered sequential alignment (full diff mode) of one source file and    *)
(* one target file.                                                        *)
(***************************************************************************)
AlignMaxLines == 3

\* the lines of the two files: blank lines shift the line numbers and not
\* the positions
AlignRaw == Terminated({<<>>, <<"a">>, <<"b">>})

Mismatch(s, t) ==
    [kind |-> "mismatch", side |-> "both", src_ln |-> s[1], src_text |-> s[2],
     tgt_ln |-> t[1], tgt_text |-> t[2]]

ExtraLine(side, e) ==
    IF side = "source"
    THEN [kind |-> "extra", side |-> side, src_ln |-> e[1], src_text |-> e[2],
          tgt_ln |-> 0, tgt_text |-> <<>>]
    ELSE [kind |-> "extra", side |-> side, src_ln |-> 0, src_text |-> <<>>,
          tgt_ln |-> e[1], tgt_text |-> e[2]]

AlignAtNoExtra(source_lines, target_lines, i) ==
    IF i <= Len(source_lines) /\ i <= Len(target_lines)
          /\ source_lines[i][2] # target_lines[i][2]
    THEN <<Mismatch(source_lines[i], target_lines[i])>>
    ELSE <<>>

\* what one position of the walk emits
AlignAt(source_lines, target_lines, i) ==
    IF i <= Len(source_lines) /\ i <= Len(target_lines)
    THEN IF source_lines[i][2] # target_lines[i][2]
         THEN <<Mismatch(source_lines[i], target_lines[i])>>
         ELSE <<>>
    ELSE IF i <= Len(source_lines)
    THEN <<ExtraLine("source", source_lines[i])>>
    ELSE <<ExtraLine("target", target_lines[i])>>

\* both streams are exhausted
Exhausted(source_lines, target_lines, i) ==
    i > Len(source_lines) /\ i > Len(target_lines)

\* the non-empty lines of both files are read, with their line numbers
AlignRead ==
    /\ al.pc = "read"
    /\ al' = [al EXCEPT !.pc = "walk",
                        !.source_lines = read_source_non_empty_lines_with_lineno(al.src),
                        !.target_lines = read_source_non_empty_lines_with_lineno(al.tgt),
                        !.pos = 1]
    /\ UNCHANGED <<source_folder, target_folder, pcMain, source_files, target_files,
                   futures, task, yielded, results, errlog, out, wrote, fn, main, env, conn>>

\* one position of the lockstep walk
AlignStep ==
    /\ al.pc = "walk"
    /\ ~Exhausted(al.source_lines, al.target_lines, al.pos)
    /\ al' = [al EXCEPT !.records = @ \o AlignAt(al.source_lines, al.target_lines, al.pos),
                        !.pos = @ + 1]
    /\ UNCHANGED <<source_folder, target_folder, pcMain, source_files, target_files,
                   futures, task, yielded, results, errlog, out, wrote, fn, main, env, conn>>

\* termination: both streams are exhausted at once
AlignEnd ==
    /\ al.pc = "walk"
    /\ Exhausted(al.source_lines, al.target_lines, al.pos)
    /\ al' = [al EXCEPT !.pc = "done"]
    /\ UNCHANGED <<source_folder, target_folder, pcMain, source_files, target_files,
                   futures, task, yielded, results, errlog, out, wrote, fn, main, env, conn>>

NextAlign == AlignRead \/ AlignStep \/ AlignEnd

InitAlign ==
    /\ source_folder = NoFolder(<<"A">>)
    /\ target_folder = NoFolder(<<"B">>)
    /\ pcMain = "off"
    /\ source_files = <<>>
    /\ target_files = <<>>
    /\ futures = <<>>
    /\ task = <<>>
    /\ yielded = {}
    /\ results = <<>>
    /\ errlog = <<>>
    /\ out = EmptyDict
    /\ wrote = <<>>
    /\ fn = FnOff
    /\ main = MainOff
    /\ env = EnvOff
    /\ conn = ConnOff
    /\ \E s \in Contents(AlignRaw, AlignMaxLines), t \in Contents(AlignRaw, AlignMaxLines) :
          al = [pc |-> "read", src |-> Readable(s), tgt |-> Readable(t),
                source_lines |-> <<>>, target_lines |-> <<>>, pos |-> 0,
                records |-> <<>>]

SpecAlign == InitAlign /\ [][NextAlign]_vars

(***************************************************************************)
(* env_loader: _candidates and load_environment.  A path is a sequence of  *)
(* its parts; env.fs gives for every path whether a file is there, whether *)
(* it can be read and the assignments it holds; env.environ is os.environ, *)
(* a function from the keys that are set to their values; a value is a     *)
(* sequence, the empty string the empty one.                               *)
(***************************************************************************)
EnvMaxCalls == 2

NoFile == [exists |-> FALSE, readable |-> FALSE, assigns |-> EmptyDict]

EnvFile(assigns) == [exists |-> TRUE, readable |-> TRUE, assigns |-> assigns]

LockedEnvFile == [exists |-> TRUE, readable |-> FALSE, assigns |-> EmptyDict]

\* os.getenv(key) is neither None (the key is not set) nor the empty string
Getenv(environ, key) == key \in DOMAIN environ /\ environ[key] # <<>>

\* the common names, in the order of the list "base"
BasePaths ==
    <<<<"cwd", ".env">>, <<"proj", ".env">>, <<"cfg", "dbconfig.env">>,
      <<"app", ".env">>, <<"proj", ".env.local">>>>

\* the profile-specific names, in the order of the list "prof"
ProfPaths(e) ==
    IF e = <<>> THEN <<>>
    ELSE <<<<"proj", ".env.">> \o e, <<"proj", ".env.">> \o e \o <<".local">>,
           <<"cfg", "dbconfig.">> \o e \o <<".env">>>>

\* _candidates(env): the list "candidates" gets the path of ENV_FILE, and
\* the function returns the common and the profile names
_candidates(environ, e) ==
    LET explicit == Getenv(environ, "ENV_FILE")
        candidates == IF explicit THEN <<environ["ENV_FILE"]>> ELSE <<>>
        base == BasePaths
        prof == ProfPaths(e)
    IN  base \o prof

Reverse(seq) == [k \in 1..Len(seq) |-> seq[Len(seq) + 1 - k]]

\* to_load = existing if override else list(reversed(existing))
ToLoad(existing, override) == IF override THEN existing ELSE Reverse(existing)

\* load_dotenv(p, override=override) on a file that can be read: a key that
\* is already set is kept unless override; True if the file holds a key
load_dotenv(environ, file, override) ==
    [environ |-> [k \in DOMAIN environ \cup DOMAIN file.assigns |->
                    IF k \in DOMAIN file.assigns /\ (override \/ k \notin DOMAIN environ)
                    THEN file.assigns[k] ELSE environ[k]],
     ok |-> DOMAIN file.assigns # {}]

\* lines 96-101: the files of to_load in turn; opening a file that cannot
\* be read raises OSError out of load_dotenv and ends the loop
RECURSIVE LoadLoop(_, _, _, _)
LoadLoop(fs, acc, to_load, override) ==
    IF to_load = <<>> THEN acc
    ELSE IF ~fs[Head(to_load)].readable THEN [acc EXCEPT !.raised = TRUE]
    ELSE LET got == load_dotenv(acc.environ, fs[Head(to_load)], override)
         IN  LoadLoop(fs, [acc EXCEPT !.environ = got.environ,
                                      !.loaded_any = @ \/ got.ok,
                                      !.loaded = Append(@, Head(to_load))],
                      Tail(to_load), override)

\* missing = [k for k in required if os.getenv(k) in (None, "")]
Missing(environ, required) ==
    SelectSeq(required, LAMBDA k : ~Getenv(environ, k))

FlagAfterRequiredCheck(missing) == missing = <<>>

\* _LOADED = True, at line 103: after the loop, before "missing" is looked at
FlagAfterLoop(missing) == TRUE

GuardIgnoresReload(loaded, reload) == loaded

\* if _LOADED and not reload: return []
Guard(loaded, reload) == loaded /\ ~reload

Args(e, override, required, reload) ==
    [env |-> e, override |-> override, required |-> required, reload |-> reload]

\* what the model keeps of a call: its arguments, os.environ and the flag
\* before it, whether an earlier call got past the guard, the files handed
\* to load_dotenv, how it ended, and the arguments and the end of the call
\* before it
CallRecord(args, how, ret, loaded) ==
    [args |-> args, how |-> how, ret |-> ret, loaded |-> loaded,
     environ_before |-> env.environ, flag_before |-> env._LOADED,
     passed_before |-> env.passed, args_before |-> env.last.args,
     how_before |-> env.last.how]

\* a call that the guard sends back at once
GuardedCall(e, override, required, reload) ==
    /\ env.pc = "on"
    /\ env.calls < EnvMaxCalls
    /\ Guard(env._LOADED, reload)
    /\ env' = [env EXCEPT !.calls = @ + 1,
                          !.last = CallRecord(Args(e, override, required, reload),
                                              "returned", <<>>, <<>>)]
    /\ UNCHANGED <<source_folder, target_folder, pcMain, source_files, target_files,
                   futures, task, yielded, results, errlog, out, wrote, fn, main, al, conn>>

\* a call that gets past the guard: lines 88-113
LoadCall(e, override, required, reload) ==
    /\ env.pc = "on"
    /\ env.calls < EnvMaxCalls
    /\ ~Guard(env._LOADED, reload)
    /\ LET args == Args(e, override, required, reload)
           paths == _candidates(env.environ, e)
           existing == SelectSeq(paths, LAMBDA p : env.fs[p].exists)
           to_load == ToLoad(existing, override)
           looped == LoadLoop(env.fs, [environ |-> env.environ, raised |-> FALSE,
                                       loaded_any |-> FALSE, loaded |-> <<>>],
                              to_load, override)
       IN  IF looped.raised
           THEN env' = [env EXCEPT !.calls = @ + 1, !.passed = TRUE,
                                   !.environ = looped.environ,
                                   !.last = CallRecord(args, "OSError", <<>>, looped.loaded)]
           ELSE env' = [env EXCEPT !.calls = @ + 1, !.passed = TRUE,
                                   !.environ = looped.environ,
                                   !._LOADED = FlagAfterLoop(Missing(looped.environ,
                                                                     required)),
                                   !.last = IF Missing(looped.environ, required) # <<>>
                                            THEN CallRecord(args, "KeyError", <<>>,
                                                            looped.loaded)
                                            ELSE CallRecord(args, "returned", existing,
                                                            looped.loaded)]
    /\ UNCHANGED <<source_folder, target_folder, pcMain, source_files, target_files,
                   futures, task, yielded, results, errlog, out, wrote, fn, main, al, conn>>

\* the arguments of the calls
EnvArgs == {<<>>, <<"dev">>}

RequiredArgs == {<<>>, <<"K">>}

NextEnv ==
    \/ \E e \in EnvArgs, override \in BOOLEAN, required \in RequiredArgs, reload \in BOOLEAN :
          GuardedCall(e, override, required, reload)
    \/ \E e \in EnvArgs, override \in BOOLEAN, required \in RequiredArgs, reload \in BOOLEAN :
          LoadCall(e, override, required, reload)

ExplicitPath == <<"etc", "my.env">>

AllPaths ==
    {BasePaths[k] : k \in 1..Len(BasePaths)}
    \cup {ProfPaths(<<"dev">>)[k] : k \in 1..Len(ProfPaths(<<"dev">>))}
    \cup {ExplicitPath}

\* the files that may be there: each with its own value of K, one of them
\* possibly unreadable, one possibly with an empty value
FileSystems ==
    {[p \in AllPaths |->
         CASE p = <<"cwd", ".env">> -> a
           [] p = <<"proj", ".env.local">> -> b
           [] p = <<"cfg", "dbconfig.", "dev", ".env">> -> c
           [] p = ExplicitPath -> d
           [] OTHER -> NoFile] :
       a \in {NoFile, EnvFile("K" :> <<"1">>), LockedEnvFile},
       b \in {NoFile, EnvFile("K" :> <<"2">>), EnvFile("K" :> <<>>)},
       c \in {NoFile, EnvFile("K" :> <<"4">>)},
       d \in {NoFile, EnvFile("K" :> <<"3">>)}}

\* os.environ at the start of the process
Environs ==
    {EmptyDict, "K" :> <<"0">>, "ENV_FILE" :> ExplicitPath,
     ("K" :> <<"0">>) @@ ("ENV_FILE" :> ExplicitPath)}

InitEnv ==
    /\ source_folder = NoFolder(<<"A">>)
    /\ target_folder = NoFolder(<<"B">>)
    /\ pcMain = "off"
    /\ source_files = <<>>
    /\ target_files = <<>>
    /\ futures = <<>>
    /\ task = <<>>
    /\ yielded = {}
    /\ results = <<>>
    /\ errlog = <<>>
    /\ out = EmptyDict
    /\ wrote = <<>>
    /\ fn = FnOff
    /\ main = MainOff
    /\ al = AlOff
    /\ conn = ConnOff
    /\ \E fs \in FileSystems, environ \in Environs :
          env = [pc |-> "on", fs |-> fs, environ |-> environ, _LOADED |-> FALSE,
                 passed |-> FALSE, calls |-> 0,
                 last |-> [args |-> Args(<<>>, FALSE, <<>>, FALSE), how |-> "none",
                           ret |-> <<>>, loaded |-> <<>>, environ_before |-> environ,
                           flag_before |-> FALSE, passed_before |-> FALSE,
                           args_before |-> Args(<<>>, FALSE, <<>>, FALSE),
                           how_before |-> "none"]]

SpecEnv == InitEnv /\ [][NextEnv]_vars

(***************************************************************************)
(* connector: _Connection.close and _Connection.__exit__.  conn holds the  *)
(* wrapper's _closed, the raw connection (whether it is open, its          *)
(* autocommit setting, the calls made on it in order) and the exception,   *)
(* if any, that left the last call.                                        *)
(***************************************************************************)
ConnMaxCalls == 3

\* a call of a method of the raw connection self._c
RawCall(c, name) == [c EXCEPT !.log = Append(@, name)]

\* close(): the raw close is called unless _closed, and _closed is set in
\* the finally clause whether or not it raised; a raw close that raises may
\* leave the raw connection open
close(c, fails, stays_open) ==
    IF ~c._closed
    THEN [RawCall(c, "close") EXCEPT !._closed = TRUE,
                                     !.open = IF fails THEN stays_open ELSE FALSE,
                                     !.raised = IF fails THEN "close" ELSE @]
    ELSE c

\* lines 223-227: the try block of __exit__; reading autocommit asks the raw
\* connection and raises on a closed one
ExitTry(c, exc_type, fails) ==
    IF ~c.open THEN [c EXCEPT !.raised = "getAutoCommit"]
    ELSE IF exc_type /\ ~c.autocommit
    THEN [RawCall(c, "rollback") EXCEPT !.raised = IF fails THEN "rollback" ELSE "none"]
    ELSE IF ~c.autocommit
    THEN [RawCall(c, "commit") EXCEPT !.raised = IF fails THEN "commit" ELSE "none"]
    ELSE [c EXCEPT !.raised = "none"]

ExitCloseUnlessRaised(tried, fails, stays_open) ==
    IF tried.raised = "none" THEN close(tried, fails, stays_open) ELSE tried

\* lines 228-229: finally: self.close()
ExitFinally(tried, fails, stays_open) == close(tried, fails, stays_open)

\* __exit__(exc_type, exc, tb)
__exit__(c, exc_type, fails_tx, fails_close, stays_open) ==
    ExitFinally(ExitTry(c, exc_type, fails_tx), fails_close, stays_open)

\* what the model keeps of a call: the method, whether the block raised,
\* and the connection before the call
ConnCall(op, exc_type) ==
    [op |-> op, exc_type |-> exc_type, open |-> conn.open, closed |-> conn._closed,
     log |-> conn.log]

\* conn.close() is called
Close ==
    /\ conn.pc = "on"
    /\ conn.calls < ConnMaxCalls
    /\ \E fails \in BOOLEAN, stays_open \in BOOLEAN :
          conn' = [close([conn EXCEPT !.raised = "none"], fails, stays_open)
                      EXCEPT !.calls = @ + 1, !.last = ConnCall("close", FALSE)]
    /\ UNCHANGED <<source_folder, target_folder, pcMain, source_files, target_files,
                   futures, task, yielded, results, errlog, out, wrote, fn, main, al, env>>

\* a with block on the connection is left, by an exception or not
Exit ==
    /\ conn.pc = "on"
    /\ conn.calls < ConnMaxCalls
    /\ \E exc_type \in BOOLEAN, fails_tx \in BOOLEAN, fails_close \in BOOLEAN,
          stays_open \in BOOLEAN :
          conn' = [__exit__(conn, exc_type, fails_tx, fails_close, stays_open)
                      EXCEPT !.calls = @ + 1, !.last = ConnCall("__exit__", exc_type)]
    /\ UNCHANGED <<source_folder, target_folder, pcMain, source_files, target_files,
                   futures, task, yielded, results, errlog, out, wrote, fn, main, al, env>>

NextConn == Close \/ Exit

\* a connection as __init__ leaves it, with autocommit on or off
InitConn ==
    /\ source_folder = NoFolder(<<"A">>)
    /\ target_folder = NoFolder(<<"B">>)
    /\ pcMain = "off"
    /\ source_files = <<>>
    /\ target_files = <<>>
    /\ futures = <<>>
    /\ task = <<>>
    /\ yielded = {}
    /\ results = <<>>
    /\ errlog = <<>>
    /\ out = EmptyDict
    /\ wrote = <<>>
    /\ fn = FnOff
    /\ main = MainOff
    /\ al = AlOff
    /\ env = EnvOff
    /\ \E autocommit \in BOOLEAN :
          conn = [pc |-> "on", _closed |-> FALSE, open |-> TRUE,
                  autocommit |-> autocommit, log |-> <<>>, raised |-> "none",
                  calls |-> 0,
                  last |-> [op |-> "none", exc_type |-> FALSE, open |-> TRUE,
                            closed |-> FALSE, log |-> <<>>]]

SpecConn == InitConn /\ [][NextConn]_vars

(***************************************************************************)
(* Reading back what was written.                                          *)
(***************************************************************************)
DigitValue(d) == CHOOSE n \in 0..9 : Digit[n + 1] = d

RECURSIVE ParseInt(_)
ParseInt(ds) ==
    IF Len(ds) = 1 THEN DigitValue(ds[1])
    ELSE 10 * ParseInt(Front(ds)) + DigitValue(Last(ds))

OfKind(lines, kind) == SelectSeq(lines, LAMBDA l : l.kind = kind)

RECURSIVE SumOfNums(_)
SumOfNums(rows) ==
    IF rows = <<>> THEN 0 ELSE ParseInt(Head(rows).num) + SumOfNums(Tail(rows))

Written(name) == name \in DOMAIN out

SummaryFile == out[summary_filename(PassLabel)]

TargetFolderName == FolderName(target_folder, "target")

ReportOf(i) == out[out_filename(futures[i], TargetFolderName)]

TotalCountOf(i) == out[totalcount_filename(futures[i], TargetFolderName)]

PastReport(i) == task[i].pc \in {"count", "detail", "done"}

PastCount(i) == task[i].pc \in {"detail", "done"}

\* C1: whenever write_overall_summary was given a non-empty result list, the
\* summary file holds exactly one row per result, and the number on its
\* GRAND_TOTAL line is the sum of the numbers on its rows.
C1_GrandTotalIsSumOfRows ==
    (Written(summary_filename(PassLabel)) /\ results # <<>>) =>
        LET rows == OfKind(SummaryFile, ",")
            grand == OfKind(SummaryFile, "GRAND_TOTAL,")
        IN  /\ Len(rows) = Len(results)
            /\ \A k \in 1..Len(results) :
                  Cardinality({j \in 1..Len(rows) : rows[j].name = results[k].source}) = 1
            /\ Len(grand) = 1
            /\ ParseInt(grand[1].num) = SumOfNums(rows)

C1_Witness ==
    /\ Written(summary_filename(PassLabel))
    /\ Len(OfKind(SummaryFile, ",")) = 2
    /\ \A k \in 1..2 : ParseInt(OfKind(SummaryFile, ",")[k].num) > 0
    /\ ParseInt(OfKind(SummaryFile, "GRAND_TOTAL,")[1].num) = 2

\* C2: for every source whose task wrote its count-only file, the integer in
\* that file is the number of "src_ln=" lines in the body of its
\* missing-lines report.
C2_TotalCountIsEntryCount ==
    \A i \in Futures :
        PastCount(i) =>
            /\ Len(TotalCountOf(i)) = 1
            /\ ParseInt(TotalCountOf(i)[1].num) = Len(OfKind(ReportOf(i), "src_ln="))

C2_Witness ==
    \E i \in Futures :
        /\ PastCount(i)
        /\ ParseInt(TotalCountOf(i)[1].num) >= 2
        /\ \E t \in DOMAIN task[i].per_target_counts :
              /\ task[i].per_target_counts[t] > 0
              /\ task[i].per_target_counts[t] < task[i].total_missing

\* C3: the futures are the source files, one task each in the order of the
\* list; once run_pass has returned from the pool, every source file has its
\* task and every task has completed or raised; and the summary file is never
\* there while a task is unfinished.
C3_ReturnAfterAllTasks ==
    /\ \A k \in Futures : k <= Len(source_files) /\ futures[k] = source_files[k]
    /\ (pcMain \in {"summary", "done"} /\ source_files # <<>> /\ target_files # <<>>) =>
          /\ futures = source_files
          /\ \A i \in Futures : Finished(i)
    /\ Written(summary_filename(PassLabel)) => \A i \in Futures : Finished(i)

C3_Witness ==
    /\ Written(summary_filename(PassLabel))
    /\ Len(futures) = 2
    /\ \A i \in Futures : task[i].pc = "done"

\* C4: once run_pass has returned, every task has run to its end, and the
\* result list holds exactly one record for each source whose task returned
\* and none for a source whose task raised; a raised task is logged and the
\* pass goes on to its summary.
C4_RaisedTaskIsSkipped ==
    /\ (pcMain \in {"summary", "done"} /\ futures # <<>>) =>
          /\ \A i \in Futures : Finished(i)
          /\ \A i \in Futures :
                Cardinality({k \in 1..Len(results) : results[k].source = futures[i]})
                    = IF task[i].pc = "done" THEN 1 ELSE 0
          /\ Len(results) = Cardinality({i \in Futures : task[i].pc = "done"})
    /\ \A i \in yielded :
          task[i].pc = "raised" =>
              /\ pcMain \in {"pool", "summary", "done"}
              /\ \E k \in 1..Len(errlog) :
                    errlog[k] = Log("Error comparing a source file:", futures[i])
    /\ (pcMain = "done" /\ futures # <<>>) => Written(summary_filename(PassLabel))

C4_Witness ==
    /\ pcMain = "done"
    /\ Len(futures) = 2
    /\ \E i, j \in Futures : task[i].pc = "raised" /\ task[j].pc = "done"
    /\ Len(results) = 1

\* C5: no output name is written by the tasks of two different source files.
C5_DisjointOutputs ==
    \A i, j \in Futures : i # j => wrote[i] \cap wrote[j] = {}

C5_Witness ==
    \E i, j \in Futures :
        i # j /\ Cardinality(wrote[i]) = 3 /\ Cardinality(wrote[j]) = 3

\* the numbers of the raw lines that are not empty once surrounding
\* whitespace is trimmed
NonBlankIdx(raw) ==
    {j \in 1..Len(raw) : \E c \in 1..Len(raw[j]) : raw[j][c] \notin Whitespace}

\* the non-empty lines of a file, without their line ends
LinesOf(raw) == {RStripNL(raw[j]) : j \in NonBlankIdx(raw)}

SourceRaw(i) == source_folder.files[futures[i]].raw

TargetRaw(tg) == target_folder.files[tg].raw

TargetReadable(tg) == target_folder.files[tg].readable

\* the lines a report holds for one target: after its "Target file:" line and
\* the rule under it, up to the next target's rule or the closing line
HeadIdx(rep, tg) ==
    CHOOSE p \in 1..Len(rep) : rep[p].kind = "Target file:" /\ rep[p].name = tg

SectionEnd(rep, p) ==
    LET stops == {q \in (p + 1)..Len(rep) :
                     rep[q].kind \in {"====", "# Overall: No missing lines found"}}
    IN  IF stops = {} THEN Len(rep)
        ELSE (CHOOSE q \in stops : \A r \in stops : q <= r) - 1

Section(rep, tg) == SubSeq(rep, HeadIdx(rep, tg) + 2, SectionEnd(rep, HeadIdx(rep, tg)))

\* the (line number, content) pairs of the entry lines among some lines
Entries(lines) ==
    LET es == OfKind(lines, "src_ln=")
    IN  [k \in 1..Len(es) |-> <<ParseInt(es[k].num), es[k].text>>]

\* how many lines of a source are absent from a target, from the raw files
AbsentCount(sraw, traw) ==
    Cardinality({j \in NonBlankIdx(sraw) : RStripNL(sraw[j]) \notin LinesOf(traw)})

RECURSIVE SumAbsent(_, _)
SumAbsent(sraw, tgs) ==
    IF tgs = <<>> THEN 0
    ELSE (IF TargetReadable(Head(tgs)) THEN AbsentCount(sraw, TargetRaw(Head(tgs))) ELSE 0)
         + SumAbsent(sraw, Tail(tgs))

DoneFutures == SelectSeq([k \in Futures |-> k], LAMBDA i : task[i].pc = "done")

RECURSIVE SumTotals(_)
SumTotals(is) ==
    IF is = <<>> THEN 0 ELSE task[Head(is)].total_missing + SumTotals(Tail(is))

\* C6: the summary file is determined by the outcomes of the tasks, whatever
\* the order in which they completed: one row per source whose task returned,
\* in ascending order of source file name, then the grand total.
C6_SummaryIndependentOfCompletionOrder ==
    (Written(summary_filename(PassLabel)) /\ results # <<>>) =>
        LET rows == OfKind(SummaryFile, ",")
        IN  /\ \A k \in 1..(Len(rows) - 1) : NameLess(rows[k].name, rows[k + 1].name)
            /\ SummaryFile =
                  <<Line("# Missing counts summary - pass:", <<PassLabel>>, <<>>, <<>>),
                    Blank, Fixed("SOURCE_FILE,TOTAL_MISSING")>>
                  \o [k \in 1..Len(DoneFutures) |->
                        Line(",", futures[DoneFutures[k]],
                             Str(task[DoneFutures[k]].total_missing), <<>>)]
                  \o <<Blank, Line("GRAND_TOTAL,", <<>>, Str(SumTotals(DoneFutures)), <<>>)>>

C6_Witness ==
    /\ Written(summary_filename(PassLabel))
    /\ Len(results) = 2
    /\ NameLess(results[2].source, results[1].source)
    /\ results[1].total_missing # results[2].total_missing

\* C7: in the task of a source with a non-empty line, the report has the
\* section of every target file in the order of the list; an unreadable
\* target's section is its error line, its count is recorded as 0 and the
\* total is the sum over the readable targets alone; and the task's result
\* record reaches the result list.
C7_UnreadableTargetIsSkipped ==
    \A i \in Futures :
        (PastReport(i) /\ task[i].source_lines # <<>>) =>
            LET rep == ReportOf(i)
                heads == OfKind(rep, "Target file:")
            IN  /\ [k \in 1..Len(heads) |-> heads[k].name] = target_files
                /\ \A k \in 1..Len(target_files) :
                      ~TargetReadable(target_files[k]) =>
                          /\ target_files[k] \in DOMAIN task[i].per_target_counts
                          /\ task[i].per_target_counts[target_files[k]] = 0
                          /\ Section(rep, target_files[k]) =
                                <<Line("# ERROR reading target file", target_files[k],
                                       <<>>, <<>>), Blank>>
                /\ task[i].total_missing = SumAbsent(SourceRaw(i), target_files)
                /\ (i \in yielded) =>
                      \E k \in 1..Len(results) : results[k] = TaskResult(task[i])

C7_Witness ==
    \E i \in Futures :
        /\ i \in yielded
        /\ task[i].pc = "done"
        /\ Len(target_files) = 2
        /\ ~TargetReadable(target_files[1])
        /\ TargetReadable(target_files[2])
        /\ task[i].per_target_counts[target_files[2]] > 0

\* C8: for one source and one readable target, the missing entries are, in
\* file order and one per physical line, the source lines that are not empty
\* after trimming and whose content without its line end equals no non-empty
\* line of the target.
C8_MissingEntriesExact ==
    fn.pc = "done" =>
        LET sraw == fn.src.raw
            absent == {j \in NonBlankIdx(sraw) : RStripNL(sraw[j]) \notin LinesOf(fn.tgt.raw)}
        IN  /\ Len(fn.missing) = Cardinality(absent)
            /\ \A m \in 1..Len(fn.missing) :
                  /\ fn.missing[m][1] \in absent
                  /\ fn.missing[m][2] = RStripNL(sraw[fn.missing[m][1]])
            /\ \A m \in 1..(Len(fn.missing) - 1) : fn.missing[m][1] < fn.missing[m + 1][1]

C8_Witness ==
    /\ fn.pc = "done"
    /\ Len(fn.missing) = 2
    /\ fn.missing[1][2] = fn.missing[2][2]
    /\ fn.tgt_set # {}

\* C9: the records read from a source are its non-blank lines, each with its
\* 1-based position among all the lines of the file, in increasing order; and
\* every entry line written to the report carries the number and content of
\* one of these records, in increasing order under each target.
C9_PhysicalLineNumbers ==
    \A i \in Futures :
        task[i].pc \in {"report", "count", "detail", "done"} =>
            LET raw == SourceRaw(i)
                recs == task[i].source_lines
            IN  /\ Len(recs) = Cardinality(NonBlankIdx(raw))
                /\ \A k \in 1..Len(recs) :
                      /\ recs[k][1] \in NonBlankIdx(raw)
                      /\ recs[k][2] = RStripNL(raw[recs[k][1]])
                /\ \A k \in 1..(Len(recs) - 1) : recs[k][1] < recs[k + 1][1]
                /\ PastReport(i) =>
                      LET rep == ReportOf(i)
                      IN  /\ \A p \in 1..Len(rep) :
                                rep[p].kind = "src_ln=" =>
                                    /\ ParseInt(rep[p].num) \in NonBlankIdx(raw)
                                    /\ rep[p].text = RStripNL(raw[ParseInt(rep[p].num)])
                          /\ \A p \in 1..(Len(rep) - 1) :
                                (rep[p].kind = "src_ln=" /\ rep[p + 1].kind = "src_ln=") =>
                                    ParseInt(rep[p].num) < ParseInt(rep[p + 1].num)

C9_Witness ==
    \E i \in Futures :
        /\ PastReport(i)
        /\ \E k \in 1..Len(task[i].source_lines) :
              /\ task[i].source_lines[k][1] > k
              /\ \E p \in 1..Len(ReportOf(i)) :
                    /\ ReportOf(i)[p].kind = "src_ln="
                    /\ ParseInt(ReportOf(i)[p].num) = task[i].source_lines[k][1]

ReadableTargets == {target_files[k] : k \in {j \in 1..Len(target_files) :
                                                 TargetReadable(target_files[j])}}

\* C10 as stated: a source line is reported missing only if its content is
\* absent from every target file of the target folder.
C10_Original ==
    \A i \in Futures :
        PastReport(i) =>
            \A p \in 1..Len(ReportOf(i)) :
                ReportOf(i)[p].kind = "src_ln=" =>
                    \A tg \in ReadableTargets : ReportOf(i)[p].text \notin LinesOf(TargetRaw(tg))

\* C10 as amended: membership is tested against the lines of each target file
\* on its own: the entries under a readable target are the source records
\* whose content is absent from that target file, whatever the other target
\* files hold, and their number is that target's count.
C10_PerTargetMembership ==
    \A i \in Futures :
        (PastReport(i) /\ task[i].source_lines # <<>>) =>
            \A tg \in ReadableTargets :
                LET absent == SelectSeq(task[i].source_lines,
                                        LAMBDA r : r[2] \notin LinesOf(TargetRaw(tg)))
                IN  /\ Entries(Section(ReportOf(i), tg)) = absent
                    /\ task[i].per_target_counts[tg] = Len(absent)

C10_Witness ==
    \E i \in Futures :
        /\ PastReport(i)
        /\ task[i].source_lines # <<>>
        /\ \E tg, other \in ReadableTargets :
              \E e \in {Entries(Section(ReportOf(i), tg))[k] :
                           k \in 1..Len(Entries(Section(ReportOf(i), tg)))} :
                  e[2] \in LinesOf(TargetRaw(other))


\* the contents of the entry lines of a report, each taken once
DistinctMissing(rep) == {e[2] : e \in {Entries(rep)[k] : k \in 1..Len(Entries(rep))}}

CountsDetailOf(i) == out[counts_detail_filename(futures[i], TargetFolderName)]

TargetNames == {target_files[k] : k \in 1..Len(target_files)}

RECURSIVE SumCounts(_, _)
SumCounts(counts, tgs) ==
    IF tgs = <<>> THEN 0 ELSE counts[Head(tgs)] + SumCounts(counts, Tail(tgs))

\* C11 as stated: the integer in a source's count-only file is the number of
\* distinct line contents among the missing entries of that source.
C11_Original ==
    \A i \in Futures :
        PastCount(i) =>
            ParseInt(TotalCountOf(i)[1].num) = Cardinality(DistinctMissing(ReportOf(i)))

\* C11: the count-only file of a source holds one integer, the number of
\* missing occurrences: for each readable target in turn, every non-blank
\* physical line of the source whose content is not in that target counts
\* once, so a content repeated in the source or missing from several targets
\* counts each time.
C11_TotalIsOccurrences ==
    \A i \in Futures :
        PastCount(i) =>
            /\ OfKind(TotalCountOf(i), "") = TotalCountOf(i)
            /\ ParseInt(TotalCountOf(i)[1].num) = SumAbsent(SourceRaw(i), target_files)
            /\ ParseInt(TotalCountOf(i)[1].num) >= Cardinality(DistinctMissing(ReportOf(i)))

C11_Witness ==
    \E i \in Futures :
        /\ PastCount(i)
        /\ Cardinality(DistinctMissing(ReportOf(i))) = 2
        /\ ParseInt(TotalCountOf(i)[1].num) > 2
        /\ \E t \in TargetNames : /\ TargetReadable(t)
                                  /\ AbsentCount(SourceRaw(i), TargetRaw(t)) = 3

\* C20: once a task has filled its counts, there is exactly one count for
\* each target file of the pass and total_missing is their sum, also for a
\* source without non-empty lines and for unreadable targets; the result
\* record carries these values, and the per-target counts file has one count
\* line per target file and a TOTAL line that is the sum of the count lines.
C20_TotalIsSumOfCounts ==
    \A i \in Futures :
        /\ PastReport(i) =>
              /\ DOMAIN task[i].per_target_counts = TargetNames
              /\ task[i].total_missing = SumCounts(task[i].per_target_counts, target_files)
              /\ TaskResult(task[i]).total_missing =
                    SumCounts(TaskResult(task[i]).target_counts, target_files)
        /\ task[i].pc = "done" =>
              LET rows == OfKind(CountsDetailOf(i), ":")
                  total == OfKind(CountsDetailOf(i), "TOTAL:")
              IN  /\ {rows[k].name : k \in 1..Len(rows)} = TargetNames
                  /\ Len(rows) = Len(target_files)
                  /\ \A k \in 1..Len(rows) :
                        ParseInt(rows[k].num) = task[i].per_target_counts[rows[k].name]
                  /\ Len(total) = 1
                  /\ ParseInt(total[1].num) = SumOfNums(rows)
                  /\ (i \in yielded) =>
                        \E k \in 1..Len(results) :
                            /\ results[k].source = futures[i]
                            /\ DOMAIN results[k].target_counts = TargetNames
                            /\ results[k].total_missing =
                                  SumCounts(results[k].target_counts, target_files)

C20_Witness ==
    /\ Len(target_files) = 2
    /\ \E i \in Futures :
          /\ task[i].pc = "done"
          /\ i \in yielded
          /\ task[i].source_lines = <<>>
          /\ Len(OfKind(CountsDetailOf(i), ":")) = 2
          /\ ParseInt(OfKind(CountsDetailOf(i), "TOTAL:")[1].num) = 0


\* a step of a comparison task: some task moves on in its code
TaskStep == \E i \in Futures : task'[i].pc # task[i].pc

BuildsIn(built, tg) == Cardinality({k \in 1..Len(built) : built[k] = tg})

RECURSIVE BuildsOf(_, _)
BuildsOf(tg, is) ==
    IF is = {} THEN 0
    ELSE LET i == CHOOSE x \in is : TRUE
         IN  BuildsIn(task[i].built, tg) + BuildsOf(tg, is \ {i})

ReadableTargetList == SelectSeq(target_files, TargetReadable)

\* C15 as stated: when the pool of a pass is done, every readable target file
\* was turned into its line set exactly once, whatever the number of sources.
C15_Original ==
    (pcMain \in {"summary", "done"} /\ futures # <<>>) =>
        \A k \in 1..Len(target_files) :
            TargetReadable(target_files[k]) =>
                BuildsOf(target_files[k], Futures) = 1

\* C15: the target folder is listed once per pass, and the list is the same
\* for every task; but the line set of a target file is not shared: every
\* task whose source has a non-empty line reads each readable target file
\* and builds its set once, in list order, and a task whose source has no
\* non-empty line builds none.  So a readable target file is read once per
\* such source file.
C15_BuiltOncePerTask ==
    /\ \A i \in Futures :
          PastReport(i) =>
              task[i].built = (IF task[i].source_lines = <<>> THEN <<>>
                               ELSE ReadableTargetList)
    /\ (pcMain \in {"summary", "done"} /\ futures # <<>>) =>
          \A k \in 1..Len(target_files) :
              TargetReadable(target_files[k]) =>
                  BuildsOf(target_files[k], Futures) =
                      Cardinality({i \in Futures : task[i].source_lines # <<>>})

C15_Witness ==
    /\ pcMain = "summary"
    /\ ReadableTargetList # <<>>
    /\ BuildsOf(ReadableTargetList[1], Futures) = 2
    /\ \E i \in Futures : PastReport(i) /\ task[i].built = <<>>


\* C12: when main has run both passes of mode BOTH and both pass summary
\* files are there, the master summary file is there too and holds, after
\* its heading, the A_to_B summary and then the B_to_A summary, each under
\* its marker line and copied line for line.
C12_MasterWhenBothSummaries ==
    (/\ main.pc \in {"listing", "finished"}
     /\ main.mode_val = BOTH
     /\ Written(summary_filename("A_to_B"))
     /\ Written(summary_filename("B_to_A"))) =>
        /\ Written(combined_filename)
        /\ out[combined_filename] =
              <<Fixed("# Master summary across passes"), Blank>>
              \o <<Line("--- Summary file:", summary_filename("A_to_B"), <<>>, <<>>)>>
              \o out[summary_filename("A_to_B")] \o <<Blank, Blank>>
              \o <<Line("--- Summary file:", summary_filename("B_to_A"), <<>>, <<>>)>>
              \o out[summary_filename("B_to_A")] \o <<Blank, Blank>>

\* a pass failed: its except clause printed the error of the pass
PassFailed(pass_label) ==
    \E k \in 1..Len(errlog) :
        errlog[k].msg = (IF pass_label = "A_to_B" THEN "Error during A->B pass:"
                         ELSE "Error during B->A pass:")

\* C13: with a valid mode no exception of a pass leaves main: main is never
\* stopped before its end, every requested pass is begun in order whether or
\* not an earlier one failed, and main ends having printed the listing of
\* the output directory.
C13_FailedPassIsSkipped ==
    (main.pc # "off" /\ ValidMode(ModeVal(main.MODE))) =>
        /\ main.pc \in {"start", "pass", "listing", "finished"}
        /\ (main.pc = "pass" /\ pcMain = "done") =>
              \/ main.pass = "A_to_B" /\ main.mode_val = BOTH
              \/ main.pass = Last(Requested(main.mode_val))
        /\ main.pc \in {"listing", "finished"} => main.ran = Requested(main.mode_val)
        /\ main.pc = "finished" => main.listing = SortedNames(DOMAIN out)
        /\ \A k \in 1..Len(main.ran) :
              (PassFailed(main.ran[k]) /\ (k < Len(main.ran) \/ pcMain = "done")) =>
                  ~Written(summary_filename(main.ran[k]))

C13_Witness ==
    /\ main.pc = "finished"
    /\ main.mode_val = BOTH
    /\ PassFailed("A_to_B")
    /\ ~PassFailed("B_to_A")
    /\ Written(summary_filename("B_to_A"))
    /\ Len(main.listing) > 1


\* the non-empty lines of a raw file, in order, as (line number, content)
NonEmpty(raw) ==
    LET idx == NonBlankIdx(raw)
        Nth[k \in 1..Cardinality(idx)] ==
            CHOOSE j \in idx : Cardinality({h \in idx : h < j}) = k - 1
    IN  [k \in 1..Cardinality(idx) |-> <<Nth[k], RStripNL(raw[Nth[k]])>>]

Min(a, b) == IF a <= b THEN a ELSE b

Max(a, b) == IF a >= b THEN a ELSE b

\* C16: the walk ends, and never goes past the longer side; when it has
\* ended, with m and n the numbers of non-empty lines of source and target,
\* the records are, in order of position: a mismatch record with both line
\* numbers and contents exactly for the positions up to min(m, n) whose
\* contents differ, then one extra-line record for every position from
\* min(m, n) + 1 to max(m, n), carrying the line of the longer side.
C16_SequentialAlignment ==
    LET S == NonEmpty(al.src.raw)
        T == NonEmpty(al.tgt.raw)
        m == Len(S)
        n == Len(T)
        diff == SelectSeq([i \in 1..Min(m, n) |-> i], LAMBDA i : S[i][2] # T[i][2])
        extras == [k \in 1..(Max(m, n) - Min(m, n)) |->
                      IF m > n THEN ExtraLine("source", S[n + k])
                      ELSE ExtraLine("target", T[m + k])]
    IN  /\ al.pc = "walk" => al.pos <= Max(m, n) + 1
        /\ al.pc = "done" =>
              /\ al.pos = Max(m, n) + 1
              /\ al.records = [k \in 1..Len(diff) |-> Mismatch(S[diff[k]], T[diff[k]])]
                              \o extras

\* source [a, b] against target [a]
C16_Witness ==
    /\ al.pc = "done"
    /\ al.src.raw = <<<<"a", LF>>, <<"b", LF>>>>
    /\ al.tgt.raw = <<<<"a", LF>>>>
    /\ al.records = <<ExtraLine("source", <<2, <<"b">>>>)>>


\* the last call got past the guard and came to the end of its load loop
LastLoaded ==
    /\ env.last.how \in {"returned", "KeyError"}
    /\ ~Guard(env.last.flag_before, env.last.args.reload)

\* the candidate files of the last call that are there, in candidate order
LastExisting ==
    SelectSeq(_candidates(env.last.environ_before, env.last.args.env),
              LAMBDA p : env.fs[p].exists)

\* those of them that define K
LastDefining == SelectSeq(LastExisting, LAMBDA p : "K" \in DOMAIN env.fs[p].assigns)

\* C17: after a call with override=False that loaded its files, a key that
\* was not set before the call and is defined in two or more existing
\* candidate files has the value of the earliest of them in candidate order.
C17_FirstHitWins ==
    (/\ LastLoaded
     /\ ~env.last.args.override
     /\ "K" \notin DOMAIN env.last.environ_before
     /\ Len(LastDefining) >= 2) =>
        env.environ["K"] = env.fs[LastDefining[1]].assigns["K"]

\* C18: when ENV_FILE names a file that is there, that file is the first of
\* the list _candidates returns, and a call that loads hands it to
\* load_dotenv.
C18_ExplicitFileIsCandidate ==
    (/\ LastLoaded
     /\ Getenv(env.last.environ_before, "ENV_FILE")
     /\ env.fs[env.last.environ_before["ENV_FILE"]].exists) =>
        LET explicit == env.last.environ_before["ENV_FILE"]
            paths == _candidates(env.last.environ_before, env.last.args.env)
        IN  /\ paths # <<>>
            /\ paths[1] = explicit
            /\ \E k \in 1..Len(env.last.loaded) : env.last.loaded[k] = explicit

\* what a call without reload does once double loads are prevented
LastDidNothing ==
    /\ env.last.how = "returned"
    /\ env.last.ret = <<>>
    /\ env.last.loaded = <<>>
    /\ env.environ = env.last.environ_before

\* C19 as stated: after any call that got past the guard, a call with
\* reload=False returns an empty list and loads nothing.
C19_Original ==
    (env.last.how # "none" /\ env.last.passed_before /\ ~env.last.args.reload) =>
        LastDidNothing

\* C19: the flag is set by exactly the calls that get past the guard and
\* come to the end of their load loop, whether they then return or raise
\* KeyError for a required key; a call whose load_dotenv raises leaves the
\* flag as it was.  Once the flag is set, a call with reload=False returns
\* an empty list, hands no file to load_dotenv and leaves the environment
\* as it was; a call with reload=True, like a call before the flag is set,
\* hands the existing candidate files to load_dotenv again, in loading
\* order, and returns them in candidate order.
C19_NoDoubleLoad ==
    env.last.how # "none" =>
        /\ env._LOADED = (env.last.flag_before \/ env.last.how \in {"returned", "KeyError"})
        /\ (env.last.flag_before /\ ~env.last.args.reload) => LastDidNothing
        /\ (~env.last.flag_before \/ env.last.args.reload) =>
              /\ env.last.how # "OSError" =>
                    env.last.loaded = ToLoad(LastExisting, env.last.args.override)
              /\ env.last.how = "returned" => env.last.ret = LastExisting
              /\ env.last.how = "OSError" =>
                    \E k \in 1..Len(LastExisting) : ~env.fs[LastExisting[k]].readable

C19_Witness ==
    /\ env.calls = 2
    /\ env.last.flag_before
    /\ ~env.last.args.reload
    /\ LastDidNothing
    /\ env.last.args.required = <<"K">>
    /\ "K" \in DOMAIN env.environ
    /\ "K" \notin DOMAIN env.fs[<<"cwd", ".env">>].assigns
    /\ env.fs[<<"proj", ".env.local">>].exists


\* the raw calls made by the last call on the connection
LastRawCalls == SubSeq(conn.log, Len(conn.last.log) + 1, Len(conn.log))

CountOf(log, name) == Cardinality({k \in 1..Len(log) : log[k] = name})

\* C21: when a with block is left on a connection whose autocommit can be
\* read, the raw calls of __exit__ begin with rollback (autocommit off, the
\* block raised) or commit (autocommit off, no exception) and hold neither
\* with autocommit on; unless the connection was closed before, the raw
\* close is the last call of __exit__, after the commit or rollback and
\* also when that raised; after any close() or __exit__ the wrapper is
\* closed, and the raw close is never called more than once.
C21_ExitCommitsOrRollsBackThenCloses ==
    /\ CountOf(conn.log, "close") <= 1
    /\ conn.last.op # "none" =>
          /\ conn._closed
          /\ CountOf(conn.log, "close") = 1
          /\ ~conn.last.closed =>
                LastRawCalls # <<>> /\ Last(LastRawCalls) = "close"
          /\ conn.last.closed => CountOf(LastRawCalls, "close") = 0
    /\ (conn.last.op = "__exit__" /\ conn.last.open) =>
          LET tx == SelectSeq(LastRawCalls, LAMBDA n : n # "close")
          IN  tx = IF conn.autocommit THEN <<>>
                   ELSE IF conn.last.exc_type THEN <<"rollback">>
                   ELSE <<"commit">>

C21_Witness ==
    /\ conn.last.op = "__exit__"
    /\ ~conn.autocommit
    /\ ~conn.last.exc_type
    /\ conn.raised = "commit"
    /\ LastRawCalls = <<"commit", "close">>
    /\ conn.calls = 1


=============================================================================
